---- MODULE Spec2Model ----
(***************************************************************************)
(* A model of the deterministic core of dsd-agent: the geometry normalizer *)
(* (row grouping and layout ordering of placeholders), the mapping         *)
(* reconciler (create_mapping) and the mapping applier (apply_mapping on   *)
(* the PowerPoint document store).                                         *)
(*                                                                         *)
(* Representation choices.                                                 *)
(*  - Lengths.  Placeholder.left/top are floats in inches obtained as      *)
(*    emu / 914400.  A length is held here as its numerator over           *)
(*    EMU_PER_INCH, so "abs(a - b) > 0.5" is 2 * |a - b| > EMU_PER_INCH.   *)
(*    Every length the model draws is exactly representable at the 0.5     *)
(*    boundary, so floating-point rounding plays no part.                  *)
(*  - None.  Python's None and a key missing from a JSON object are the    *)
(*    values None and Missing below.                                       *)
(*  - Objects.  Lists hold records; a position in a list stands for the    *)
(*    identity of the Python object held there.                            *)
(*  - Strings.  Titles, labels and the --filter value are tuples of        *)
(*    fragments, each a tuple of characters, so that lower() and "in" are  *)
(*    computed; other strings are atoms.                                   *)
(*  - Responses.  The text of a response is held by its form (JSON, fenced,*)
(*    prose, ...) and the JSON value json.loads gives for it.              *)
(*  - Exceptions.  A call that raises records the exception in call or in  *)
(*    pc; nothing it would have returned is kept.                          *)
(***************************************************************************)
EXTENDS Integers, Sequences, FiniteSets, TLC

VARIABLES
    pc,             \* which operation ran last
    scanned,        \* the placeholders as collected from the slide's shapes
    placeholders,   \* the list held by find_architecture_slides / returned by _assign_row_groups
    slide,          \* the ArchitectureSlide given to create_mapping
    components,     \* analysis.components, the catalog
    data,           \* data["mappings"], the raw entries of the parsed response
    result,         \* the MappingResult returned by create_mapping
    prs,            \* the presentation: a sequence of slides with their shapes
    architecture_slides,  \* DSDDocument._architecture_slides: None or the cached scan
    count,          \* the value returned by apply_mapping
    applied_slides, \* the indices of the slides a mapping has been applied to
    call            \* the last call of the public API: its name, arguments and outcome

vars == <<pc, scanned, placeholders, slide, components, data, result,
          prs, architecture_slides, count, applied_slides, call>>

None == "<None>"
Missing == "<missing>"

Abs(x) == IF x < 0 THEN -x ELSE x

Range(s) == {s[i] : i \in DOMAIN s}

SeqsUpTo(S, n) == UNION {[1..k -> S] : k \in 0..n}

RemoveAt(s, i) == [j \in 1..(Len(s) - 1) |-> IF j < i THEN s[j] ELSE s[j + 1]]

(***************************************************************************)
(* Placeholder and the geometry normalizer                                 *)
(***************************************************************************)

EMU_PER_INCH == 914400

\* Lengths used by the bounded inputs, in EMU: 0", 0.4", 0.5", 0.505", 0.8", 1.0"
Tops == {0, 365760, 457200, 461772, 731520, 914400}
Lefts == {0, 914400}

\* The scenario of the specification: tops 0.1", 0.15", 3.0", 3.05", 6.2"
ExampleTops == <<91440, 137160, 2743200, 2788920, 5669280>>

MaxPlaceholders == 3

ShapeNames == <<"ph1", "ph2", "ph3", "ph4", "ph5">>

Placeholder(slide_index, slide_title, shape_name, text, left, top, row_group) ==
    [slide_index |-> slide_index, slide_title |-> slide_title,
     shape_name |-> shape_name, text |-> text,
     left |-> left, top |-> top, width |-> EMU_PER_INCH, height |-> EMU_PER_INCH,
     row_group |-> row_group]

\* sorted(placeholders, key=lambda p: p.top): the positions of the list in
\* ascending top; Python's sort is stable, so equal tops keep their list order.
RankByTop(phs, j) ==
    1 + Cardinality({k \in DOMAIN phs :
                        \/ phs[k].top < phs[j].top
                        \/ phs[k].top = phs[j].top /\ k < j})

SortedByTop(phs) ==
    [i \in DOMAIN phs |-> CHOOSE j \in DOMAIN phs : RankByTop(phs, j) = i]

\* The loop of _assign_row_groups over sorted_ph: order[i] is the position of
\* the i-th placeholder of sorted_ph; the objects are shared with the list.
RECURSIVE WalkRows(_, _, _, _, _)
WalkRows(phs, order, i, row_group, current_top) ==
    IF i > Len(order) THEN phs
    ELSE LET ph == phs[order[i]]
             new_row == 2 * Abs(ph.top - current_top) > EMU_PER_INCH
             rg == IF new_row THEN row_group + 1 ELSE row_group
             ct == IF new_row THEN ph.top ELSE current_top
         IN  WalkRows([phs EXCEPT ![order[i]].row_group = rg], order, i + 1, rg, ct)

\* A walk that resets current_top at every placeholder (compares neighbours).
RECURSIVE WalkRowsNeighbour(_, _, _, _, _)
WalkRowsNeighbour(phs, order, i, row_group, current_top) ==
    IF i > Len(order) THEN phs
    ELSE LET ph == phs[order[i]]
             new_row == 2 * Abs(ph.top - current_top) > EMU_PER_INCH
             rg == IF new_row THEN row_group + 1 ELSE row_group
         IN  WalkRowsNeighbour([phs EXCEPT ![order[i]].row_group = rg],
                               order, i + 1, rg, ph.top)

assign_row_groups_neighbour(phs) ==
    IF phs = <<>> THEN phs
    ELSE LET order == SortedByTop(phs)
         IN  WalkRowsNeighbour(phs, order, 1, 0, phs[order[1]].top)

\* A walk that numbers the rows from one.
assign_row_groups_from_one(phs) ==
    IF phs = <<>> THEN phs
    ELSE LET order == SortedByTop(phs)
         IN  WalkRows(phs, order, 1, 1, phs[order[1]].top)

\* A walk that starts a new row at a distance of 0.5" already (>= for >).
RECURSIVE WalkRowsAtLeast(_, _, _, _, _)
WalkRowsAtLeast(phs, order, i, row_group, current_top) ==
    IF i > Len(order) THEN phs
    ELSE LET ph == phs[order[i]]
             new_row == 2 * Abs(ph.top - current_top) >= EMU_PER_INCH
             rg == IF new_row THEN row_group + 1 ELSE row_group
             ct == IF new_row THEN ph.top ELSE current_top
         IN  WalkRowsAtLeast([phs EXCEPT ![order[i]].row_group = rg],
                             order, i + 1, rg, ct)

assign_row_groups_at_least(phs) ==
    IF phs = <<>> THEN phs
    ELSE LET order == SortedByTop(phs)
         IN  WalkRowsAtLeast(phs, order, 1, 0, phs[order[1]].top)

\* A walk over the list as given, without the sort by top.
assign_row_groups_unsorted(phs) ==
    IF phs = <<>> THEN phs
    ELSE WalkRows(phs, [i \in DOMAIN phs |-> i], 1, 0, phs[1].top)

\* DSDDocument._assign_row_groups / GoogleSlidesDocument._assign_row_groups:
\* writes row_group into the placeholders and returns the list it was given.
assign_row_groups(phs) ==
    IF phs = <<>> THEN phs
    ELSE LET order == SortedByTop(phs)
         IN  WalkRows(phs, order, 1, 0, phs[order[1]].top)

\* placeholders.sort(key=lambda p: (p.row_group, p.left)), stable.
KeyLess(p, q) ==
    \/ p.row_group < q.row_group
    \/ p.row_group = q.row_group /\ p.left < q.left

KeyEq(p, q) == p.row_group = q.row_group /\ p.left = q.left

RankByRowLeft(phs, j) ==
    1 + Cardinality({k \in DOMAIN phs :
                        \/ KeyLess(phs[k], phs[j])
                        \/ KeyEq(phs[k], phs[j]) /\ k < j})

\* A sort on left alone, forgetting the row.
sort_by_left_only(phs) ==
    [i \in DOMAIN phs |->
        phs[CHOOSE j \in DOMAIN phs :
               i = 1 + Cardinality({k \in DOMAIN phs :
                                       \/ phs[k].left < phs[j].left
                                       \/ phs[k].left = phs[j].left /\ k < j})]]

sort_by_row_left(phs) ==
    [i \in DOMAIN phs |-> phs[CHOOSE j \in DOMAIN phs : RankByRowLeft(phs, j) = i]]

\* find_architecture_slides, lines 113-122, for one slide's placeholders.
normalize_placeholders(phs) == sort_by_row_left(assign_row_groups(phs))

\* The placeholders a scan collects: shape i of the slide, row_group = 0.
ScannedLists ==
    UNION {[1..k -> Tops \X Lefts] : k \in 0..MaxPlaceholders}

AsPlaceholders(geo, tops_only) ==
    [i \in DOMAIN geo |->
        Placeholder(0, "Current State", ShapeNames[i], "Lorem ipsum",
                    IF tops_only THEN 0 ELSE geo[i][2],
                    IF tops_only THEN geo[i] ELSE geo[i][1], 0)]

ExampleInput == AsPlaceholders(ExampleTops, TRUE)

RowInputs == {AsPlaceholders(g, FALSE) : g \in ScannedLists} \cup {ExampleInput}

Idle == "idle"

InitRows ==
    /\ pc = "scanned"
    /\ scanned \in RowInputs
    /\ placeholders = scanned
    /\ slide = Idle /\ components = Idle /\ data = Idle /\ result = Idle
    /\ prs = Idle /\ architecture_slides = Idle /\ count = Idle
    /\ applied_slides = Idle /\ call = Idle

\* _assign_row_groups applied to the scanned list.
AssignRowGroups ==
    /\ pc = "scanned"
    /\ placeholders' = assign_row_groups(scanned)
    /\ pc' = "grouped"
    /\ UNCHANGED <<scanned, slide, components, data, result, prs,
                   architecture_slides, count, applied_slides, call>>

\* find_architecture_slides on a slide that has placeholders: group, then sort.
NormalizeSlide ==
    /\ pc = "scanned"
    /\ scanned # <<>>
    /\ placeholders' = normalize_placeholders(scanned)
    /\ pc' = "normalized"
    /\ UNCHANGED <<scanned, slide, components, data, result, prs,
                   architecture_slides, count, applied_slides, call>>

NextRows == AssignRowGroups \/ NormalizeSlide

SpecRows == InitRows /\ [][NextRows]_vars

(***************************************************************************)
(* SystemComponent, MappingResult and the mapping reconciler               *)
(***************************************************************************)

SystemComponent(name, category, description, layer) ==
    [name |-> name, category |-> category, description |-> description,
     layer |-> layer]

ArchitectureSlide(index, title, phs) ==
    [index |-> index, title |-> title, placeholders |-> phs]

MappingResult(slide_index, slide_title, mappings, unmapped_ph, unmapped_comp) ==
    [slide_index |-> slide_index, slide_title |-> slide_title,
     mappings |-> mappings, unmapped_placeholders |-> unmapped_ph,
     unmapped_components |-> unmapped_comp]

\* The strings of the model that differ from another string of the model
\* only in letter case, with that other string.
CaseFold(str) ==
    CASE str = "PH1" -> "ph1"
      [] str = "api gateway" -> "API Gateway"
      [] OTHER -> str

\* A lookup that ignores letter case.
GetFolded(m, key) == IF m[key] = Missing THEN None ELSE CaseFold(m[key])

\* m.get(key) and m.get(key, default) on one raw entry
Get(m, key) == IF m[key] = Missing THEN None ELSE m[key]
GetOr(m, key, default) == IF m[key] = Missing THEN default ELSE m[key]

\* {x.key: x for x in xs}: a later element replaces an earlier one of the same key
DictKeys(xs, key) == {xs[i][key] : i \in DOMAIN xs}
DictGet(xs, key, k) ==
    xs[CHOOSE i \in DOMAIN xs :
          /\ xs[i][key] = k
          /\ \A j \in DOMAIN xs : xs[j][key] = k => j <= i]

\* The loop of create_mapping over data.get("mappings", []); acc holds the
\* locals mappings, mapped_shapes and mapped_components.
RECURSIVE ReconcileLoop(_, _, _, _, _)
ReconcileLoop(phs, comps, d, id_key, acc) ==
    IF d = <<>> THEN acc
    ELSE LET m == Head(d)
             shape_name == Get(m, id_key)
             component_name == Get(m, "component_name")
         IN  IF shape_name \in DictKeys(phs, "shape_name")
             THEN LET ph == DictGet(phs, "shape_name", shape_name)
                      known == component_name \in DictKeys(comps, "name")
                      comp == IF known
                              THEN DictGet(comps, "name", component_name)
                              ELSE SystemComponent(component_name, "unknown",
                                                   GetOr(m, "reasoning", ""), "")
                  IN  ReconcileLoop(phs, comps, Tail(d), id_key,
                        [mappings |-> Append(acc.mappings, <<ph, comp>>),
                         mapped_shapes |-> acc.mapped_shapes \cup {shape_name},
                         mapped_components |->
                            IF known THEN acc.mapped_components \cup {component_name}
                            ELSE acc.mapped_components])
             ELSE ReconcileLoop(phs, comps, Tail(d), id_key, acc)

\* create_mapping from "Build mapping result" on (agent.py 240-279,
\* google_slides.py 443-478); id_key is "shape_name" or "object_id".
Reconcile(sl, comps, d, id_key) ==
    LET acc == ReconcileLoop(sl.placeholders, comps, d, id_key,
                             [mappings |-> <<>>, mapped_shapes |-> {},
                              mapped_components |-> {}])
    IN  MappingResult(sl.index, sl.title, acc.mappings,
            SelectSeq(sl.placeholders,
                      LAMBDA ph : ph.shape_name \notin acc.mapped_shapes),
            SelectSeq(comps, LAMBDA c : c.name \notin acc.mapped_components))

EntryNames(d) == {Get(d[i], "component_name") : i \in DOMAIN d}

\* unmapped_ph without its filter: every placeholder is reported unmapped.
create_mapping_no_ph_filter(sl, comps, d) ==
    [Reconcile(sl, comps, d, "shape_name") EXCEPT
        !.unmapped_placeholders = sl.placeholders]

Reverse(xs) == [i \in DOMAIN xs |-> xs[Len(xs) + 1 - i]]

\* The three lists are built newest first.
create_mapping_newest_first(sl, comps, d) ==
    LET r == Reconcile(sl, comps, d, "shape_name")
    IN  [r EXCEPT !.mappings = Reverse(r.mappings),
                  !.unmapped_placeholders = Reverse(r.unmapped_placeholders),
                  !.unmapped_components = Reverse(r.unmapped_components)]

\* mapped_components.add before the shape_name test: a dropped entry marks
\* the component it names as used.
create_mapping_marks_dropped(sl, comps, d) ==
    [Reconcile(sl, comps, d, "shape_name") EXCEPT
        !.unmapped_components =
            SelectSeq(comps, LAMBDA c : c.name \notin EntryNames(d))]

\* the synthesized components are appended to unmapped_components.
create_mapping_reports_synth(sl, comps, d) ==
    LET r == Reconcile(sl, comps, d, "shape_name")
        synth == SelectSeq([i \in DOMAIN r.mappings |-> r.mappings[i][2]],
                           LAMBDA c : c.name \notin DictKeys(comps, "name"))
    IN  [r EXCEPT !.unmapped_components = r.unmapped_components \o synth]

\* DSDAgent.create_mapping, given the parsed response
create_mapping(sl, comps, d) == Reconcile(sl, comps, d, "shape_name")

\* GoogleSlidesAgent.create_mapping, given the parsed response
google_create_mapping(sl, comps, d) == Reconcile(sl, comps, d, "object_id")

(***************************************************************************)
(* Inputs of the reconciler                                                *)
(***************************************************************************)

MaxCatalog == 2
MaxData == 3

CatalogPool ==
    {SystemComponent("API Gateway", "integration", "", ""),
     SystemComponent("API Gateway", "data", "", ""),
     SystemComponent("Mobile App", "channel", "", "")}

Catalogs == SeqsUpTo(CatalogPool, MaxCatalog)

\* One raw entry of the response; the identifier is under the key the back
\* end's prompt asks for.
Entry(id_key, id, component_name, reasoning) ==
    [shape_name |-> IF id_key = "shape_name" THEN id ELSE Missing,
     object_id |-> IF id_key = "object_id" THEN id ELSE Missing,
     component_name |-> component_name, reasoning |-> reasoning]

RawEntries(id_key) ==
    {Entry(id_key, "ph1", "API Gateway", "gateway box"),
     Entry(id_key, "ph1", "Legacy ESB", "middle tier"),
     Entry(id_key, "ph2", "Legacy ESB", Missing),
     Entry(id_key, "ph9", "API Gateway", "gateway box"),
     Entry(id_key, "ph2", Missing, "no name given"),
     Entry(id_key, "ph2", "Mobile App", Missing)}

RawLists(id_key) == SeqsUpTo(RawEntries(id_key), MaxData)

\* raw lists whose entries differ from a placeholder identifier or from a
\* catalog name only in letter case
CaseLists(id_key) ==
    {<<Entry(id_key, "PH1", "API Gateway", "gateway box")>>,
     <<Entry(id_key, "ph2", "api gateway", Missing)>>,
     <<Entry(id_key, "PH1", "API Gateway", "gateway box"),
       Entry(id_key, "ph2", "api gateway", Missing)>>,
     <<Entry(id_key, "ph2", "api gateway", Missing),
       Entry(id_key, "ph1", "API Gateway", "gateway box")>>}

\* The slides create_mapping is given: placeholders with distinct shape
\* names (the data model's identifier), in the normalizer's order.
SlideNameLists == {<<"ph1">>, <<"ph2">>, <<"ph1", "ph2">>, <<"ph2", "ph1">>}

SlideOf(names) ==
    ArchitectureSlide(0, "Current State",
        normalize_placeholders(
            [i \in DOMAIN names |->
                Placeholder(0, "Current State", names[i], "Lorem ipsum",
                            (i - 1) * EMU_PER_INCH, 0, 0)]))

MapSlides == {SlideOf(n) : n \in SlideNameLists}

InitMap ==
    /\ pc = "analyzed"
    /\ slide \in MapSlides
    /\ components \in Catalogs
    /\ data = None /\ result = None
    /\ scanned = Idle /\ placeholders = Idle
    /\ prs = Idle /\ architecture_slides = Idle /\ count = Idle
    /\ applied_slides = Idle /\ call = Idle

\* DSDAgent.create_mapping on the slide, the model answering with d
CreateMapping ==
    /\ pc = "analyzed"
    /\ \E d \in RawLists("shape_name") \cup CaseLists("shape_name") :
          /\ data' = d
          /\ result' = create_mapping(slide, components, d)
    /\ pc' = "mapped"
    /\ UNCHANGED <<scanned, placeholders, slide, components, prs,
                   architecture_slides, count, applied_slides, call>>

\* GoogleSlidesAgent.create_mapping on the slide, the model answering with d
GoogleCreateMapping ==
    /\ pc = "analyzed"
    /\ \E d \in RawLists("object_id") \cup CaseLists("object_id") :
          /\ data' = d
          /\ result' = google_create_mapping(slide, components, d)
    /\ pc' = "google_mapped"
    /\ UNCHANGED <<scanned, placeholders, slide, components, prs,
                   architecture_slides, count, applied_slides, call>>

\* The lines of a summary.  ph.shape_name[-15:] is the name itself for the
\* names of the model, which are shorter than 15 characters.
SummaryHead(r) ==
    <<[kind |-> "slide", number |-> r.slide_index + 1, title |-> r.slide_title],
      [kind |-> "mapped", count |-> Len(r.mappings)]>>
        \o [i \in DOMAIN r.mappings |->
               [kind |-> "pair", name |-> r.mappings[i][2].name,
                shape_name |-> r.mappings[i][1].shape_name]]

SummaryUnmapped(r) ==
    IF r.unmapped_placeholders # <<>>
    THEN <<[kind |-> "unmapped_placeholders",
            count |-> Len(r.unmapped_placeholders)]>>
    ELSE <<>>

FirstFive(xs) == SubSeq(xs, 1, IF Len(xs) > 5 THEN 5 ELSE Len(xs))

\* DSDAgent.get_mapping_summary
get_mapping_summary(r) ==
    SummaryHead(r) \o SummaryUnmapped(r)
        \o (IF r.unmapped_components # <<>>
            THEN <<[kind |-> "unused_components",
                    count |-> Len(r.unmapped_components)]>>
                 \o [i \in DOMAIN FirstFive(r.unmapped_components) |->
                        [kind |-> "unused", name |-> r.unmapped_components[i].name]]
                 \o (IF Len(r.unmapped_components) > 5
                     THEN <<[kind |-> "more",
                             count |-> Len(r.unmapped_components) - 5]>>
                     ELSE <<>>)
            ELSE <<>>)

\* GoogleSlidesAgent.get_mapping_summary
google_get_mapping_summary(r) ==
    SummaryHead(r) \o SummaryUnmapped(r)
        \o (IF r.unmapped_components # <<>>
            THEN <<[kind |-> "unused_components",
                    count |-> Len(r.unmapped_components)]>>
            ELSE <<>>)

\* DSDAgent.get_mapping_summary(result)
GetMappingSummary ==
    /\ pc = "mapped"
    /\ call' = [op |-> "get_mapping_summary", ret |-> get_mapping_summary(result)]
    /\ pc' = "summarized"
    /\ UNCHANGED <<scanned, placeholders, slide, components, data, result, prs,
                   architecture_slides, count, applied_slides>>

\* GoogleSlidesAgent.get_mapping_summary(result)
GoogleGetMappingSummary ==
    /\ pc = "google_mapped"
    /\ call' = [op |-> "google.get_mapping_summary",
                ret |-> google_get_mapping_summary(result)]
    /\ pc' = "google_summarized"
    /\ UNCHANGED <<scanned, placeholders, slide, components, data, result, prs,
                   architecture_slides, count, applied_slides>>

NextMap ==
    \/ CreateMapping
    \/ GoogleCreateMapping
    \/ GetMappingSummary
    \/ GoogleGetMappingSummary

SpecMap == InitMap /\ [][NextMap]_vars

(***************************************************************************)
(* Titles and the slide classifier                                         *)
(***************************************************************************)

\* A title or a label is held as the sequence of its fragments, each a tuple
\* of characters; the Python string is their concatenation, Text.
W_Current == <<"C", "u", "r", "r", "e", "n", "t">>
W_CONCURRENT == <<"C", "O", "N", "C", "U", "R", "R", "E", "N", "T">>
W_Target == <<"T", "a", "r", "g", "e", "t">>
W_future == <<"f", "u", "t", "u", "r", "e">>
W_TimeLine == <<"T", "i", "m", "e", "L", "i", "n", "e">>
W_Timeline == <<"T", "i", "m", "e", "l", "i", "n", "e">>
W_North == <<"N", "o", "r", "t", "h">>
W_STAR == <<"S", "T", "A", "R">>
W_Vision == <<"V", "i", "s", "i", "o", "n">>
W_State == <<"S", "t", "a", "t", "e">>
W_Space == <<" ">>
W_Slash == <<"/">>
W_Architecture == <<"A", "r", "c", "h", "i", "t", "e", "c", "t", "u", "r", "e">>
W_Diagram == <<"D", "i", "a", "g", "r", "a", "m">>
W_Implementation ==
    <<"I", "m", "p", "l", "e", "m", "e", "n", "t", "a", "t", "i", "o", "n">>
W_Goals == <<"G", "o", "a", "l", "s">>

RECURSIVE Text(_)
Text(fragments) ==
    IF fragments = <<>> THEN <<>> ELSE Head(fragments) \o Text(Tail(fragments))

UpperCase ==
    <<"A", "B", "C", "D", "E", "F", "G", "H", "I", "J", "K", "L", "M",
      "N", "O", "P", "Q", "R", "S", "T", "U", "V", "W", "X", "Y", "Z">>
LowerCase ==
    <<"a", "b", "c", "d", "e", "f", "g", "h", "i", "j", "k", "l", "m",
      "n", "o", "p", "q", "r", "s", "t", "u", "v", "w", "x", "y", "z">>

LowerOf ==
    [c \in Range(UpperCase) |->
        LowerCase[CHOOSE k \in DOMAIN UpperCase : UpperCase[k] = c]]

\* str.lower() on a tuple of characters
lower(chars) ==
    [i \in DOMAIN chars |->
        IF chars[i] \in DOMAIN LowerOf THEN LowerOf[chars[i]] ELSE chars[i]]

\* "sub in chars" of Python
Contains(sub, chars) ==
    \E k \in 0..(Len(chars) - Len(sub)) :
        \A i \in DOMAIN sub : chars[k + i] = sub[i]

\* the keywords of the classifier, as written in the source (lower case)
KW_current == <<"c", "u", "r", "r", "e", "n", "t">>
KW_target == <<"t", "a", "r", "g", "e", "t">>
KW_future == <<"f", "u", "t", "u", "r", "e">>
KW_timeline == <<"t", "i", "m", "e", "l", "i", "n", "e">>
KW_north_star == <<"n", "o", "r", "t", "h", " ", "s", "t", "a", "r">>
KW_vision == <<"v", "i", "s", "i", "o", "n">>

\* the labels the classifier returns
CURRENT_STATE == <<W_Current, W_Space, W_State, W_Space, W_Architecture>>
TARGET_STATE == <<W_Target, W_Space, W_State, W_Space, W_Architecture>>
IMPLEMENTATION_TIMELINE == <<W_Implementation, W_Space, W_Timeline>>
VISION_GOALS == <<W_Vision, W_Slash, W_Goals>>
ARCHITECTURE_DIAGRAM == <<W_Architecture, W_Space, W_Diagram>>

\* A classifier that compares the title as written, without lower().
determine_slide_type_case_sensitive(sl) ==
    LET title == Text(sl.title)
    IN  IF Contains(KW_current, title) THEN CURRENT_STATE
        ELSE IF Contains(KW_target, title) \/ Contains(KW_future, title)
        THEN TARGET_STATE
        ELSE IF Contains(KW_timeline, title) THEN IMPLEMENTATION_TIMELINE
        ELSE IF Contains(KW_north_star, title) \/ Contains(KW_vision, title)
        THEN VISION_GOALS
        ELSE ARCHITECTURE_DIAGRAM

\* A classifier that tries the "timeline" rule before the others.
determine_slide_type_timeline_first(sl) ==
    LET title_lower == lower(Text(sl.title))
    IN  IF Contains(KW_timeline, title_lower) THEN IMPLEMENTATION_TIMELINE
        ELSE IF Contains(KW_current, title_lower) THEN CURRENT_STATE
        ELSE IF Contains(KW_target, title_lower) \/ Contains(KW_future, title_lower)
        THEN TARGET_STATE
        ELSE IF Contains(KW_north_star, title_lower) \/ Contains(KW_vision, title_lower)
        THEN VISION_GOALS
        ELSE ARCHITECTURE_DIAGRAM

\* DSDAgent._determine_slide_type
determine_slide_type(sl) ==
    LET title_lower == lower(Text(sl.title))
    IN  IF Contains(KW_current, title_lower) THEN CURRENT_STATE
        ELSE IF Contains(KW_target, title_lower) \/ Contains(KW_future, title_lower)
        THEN TARGET_STATE
        ELSE IF Contains(KW_timeline, title_lower) THEN IMPLEMENTATION_TIMELINE
        ELSE IF Contains(KW_north_star, title_lower) \/ Contains(KW_vision, title_lower)
        THEN VISION_GOALS
        ELSE ARCHITECTURE_DIAGRAM

\* GoogleSlidesAgent._determine_slide_type
google_determine_slide_type(sl) ==
    LET title_lower == lower(Text(sl.title))
    IN  IF Contains(KW_current, title_lower) THEN CURRENT_STATE
        ELSE IF Contains(KW_target, title_lower) \/ Contains(KW_future, title_lower)
        THEN TARGET_STATE
        ELSE IF Contains(KW_timeline, title_lower) THEN IMPLEMENTATION_TIMELINE
        ELSE ARCHITECTURE_DIAGRAM

MaxTitleFragments == 3

TitleFragments ==
    {W_Current, W_CONCURRENT, W_Target, W_future, W_TimeLine, W_North,
     W_STAR, W_Vision, W_State, W_Space}

Titles == SeqsUpTo(TitleFragments, MaxTitleFragments)

InitClassify ==
    /\ pc = "titled"
    /\ slide \in {ArchitectureSlide(0, t, <<>>) : t \in Titles}
    /\ call = [op |-> "ArchitectureSlide"]
    /\ components = Idle /\ data = Idle /\ result = Idle
    /\ scanned = Idle /\ placeholders = Idle
    /\ prs = Idle /\ architecture_slides = Idle /\ count = Idle
    /\ applied_slides = Idle

\* DSDAgent._determine_slide_type(slide)
DetermineSlideType ==
    /\ pc = "titled"
    /\ call' = [op |-> "_determine_slide_type", ret |-> determine_slide_type(slide)]
    /\ pc' = "classified"
    /\ UNCHANGED <<scanned, placeholders, slide, components, data, result,
                   prs, architecture_slides, count, applied_slides>>

\* GoogleSlidesAgent._determine_slide_type(slide)
GoogleDetermineSlideType ==
    /\ pc = "titled"
    /\ call' = [op |-> "google._determine_slide_type",
                ret |-> google_determine_slide_type(slide)]
    /\ pc' = "google_classified"
    /\ UNCHANGED <<scanned, placeholders, slide, components, data, result,
                   prs, architecture_slides, count, applied_slides>>

NextClassify == DetermineSlideType \/ GoogleDetermineSlideType

SpecClassify == InitClassify /\ [][NextClassify]_vars

(***************************************************************************)
(* The response of the model and how create_mapping reads it               *)
(***************************************************************************)

\* The JSON values a response can hold.  A JSON object that is an item of
\* "mappings" is a raw entry (Entry); the top-level object is held by the
\* value of its "mappings" key, JsonMissing when it has no such key.
JsonMissing == [json |-> "missing"]
NoJson == [json |-> "none"]
JsonNull == [json |-> "null"]
JsonNumber == [json |-> "number"]
JsonString(chars) == [json |-> "string", chars |-> chars]
JsonArray(items) == [json |-> "array", items |-> items]
JsonObject(mappings) == [json |-> "object", mappings |-> mappings]

IsDict(v) == "json" \notin DOMAIN v \/ v.json = "object"

\* The text of a response by its form:
\*   "json"               the text is the JSON value
\*   "fenced"             a code fence around the JSON value
\*   "prose"              no JSON and no brace pair
\*   "fenced_prose"       a code fence around text that is no JSON, no braces
\*   "prose_then_object"  words around one JSON object
\*   "prose_with_braces"  words with a brace pair that is no JSON
\* long: the text has more than 500 characters.
Response(form, value, long) == [form |-> form, value |-> value, long |-> long]

Exception(type, text) == [type |-> type, text |-> text]

\* create_mapping, "Parse JSON": the value of data, or the exception raised.
\* with_text: the ValueError carries response_text[:500] (DSDAgent) or no
\* text (GoogleSlidesAgent).
parse_response(response, with_text) ==
    CASE response.form \in {"json", "fenced", "prose_then_object"} ->
            [raised |-> FALSE, data |-> response.value]
      [] response.form = "prose" ->
            [raised |-> TRUE,
             exc |-> Exception("ValueError",
                        IF ~with_text THEN None
                        ELSE IF response.long THEN "response_text[:500]"
                        ELSE "response_text")]
      [] response.form = "fenced_prose" ->
            [raised |-> TRUE,
             exc |-> Exception("ValueError",
                        IF with_text THEN "text inside the fence" ELSE None)]
      [] response.form = "prose_with_braces" ->
            [raised |-> TRUE, exc |-> Exception("JSONDecodeError", None)]

\* for m in data.get("mappings", []) with m.get(...) on each m: the items the
\* loop body runs on, or the exception raised on the way
iterate_mappings(d) ==
    IF d.json # "object"
    THEN [raised |-> TRUE, exc |-> Exception("AttributeError", None)]
    ELSE LET value == d.mappings
         IN  IF value = JsonMissing THEN [raised |-> FALSE, items |-> <<>>]
             ELSE CASE value.json = "array" ->
                          IF \A i \in DOMAIN value.items : IsDict(value.items[i])
                          THEN [raised |-> FALSE, items |-> value.items]
                          ELSE [raised |-> TRUE,
                                exc |-> Exception("AttributeError", None)]
                    [] value.json = "string" ->
                          IF value.chars = <<>>
                          THEN [raised |-> FALSE, items |-> <<>>]
                          ELSE [raised |-> TRUE,
                                exc |-> Exception("AttributeError", None)]
                    [] value.json \in {"null", "number"} ->
                          [raised |-> TRUE, exc |-> Exception("TypeError", None)]

Failure(exc) == [raised |-> TRUE, exc |-> exc, result |-> None]

\* create_mapping from the response text on: parse, then reconcile
create_mapping_response(sl, comps, response, id_key, with_text) ==
    LET parsed == parse_response(response, with_text)
    IN  IF parsed.raised THEN Failure(parsed.exc)
        ELSE LET it == iterate_mappings(parsed.data)
             IN  IF it.raised THEN Failure(it.exc)
                 ELSE [raised |-> FALSE, exc |-> Exception(None, None),
                       result |-> Reconcile(sl, comps, it.items, id_key)]

\* the raw lists of the responses
ResponseLists(id_key) ==
    {<<>>,
     <<Entry(id_key, "ph1", "API Gateway", "gateway box")>>,
     <<Entry(id_key, "ph9", "API Gateway", "gateway box")>>,
     <<Entry(id_key, "ph1", "API Gateway", "gateway box"),
       Entry(id_key, "ph2", "Legacy ESB", Missing)>>}

ObjectValues(id_key) ==
    {JsonObject(JsonArray(d)) : d \in ResponseLists(id_key)}
        \cup {JsonObject(JsonMissing),
              JsonObject(JsonNull),
              JsonObject(JsonNumber),
              JsonObject(JsonString(<<>>)),
              JsonObject(JsonString(<<"p", "h", "1">>)),
              JsonObject(JsonArray(<<JsonNumber>>)),
              JsonObject(JsonArray(<<Entry(id_key, "ph1", "API Gateway", Missing),
                                     JsonString(<<"p", "h", "2">>)>>))}

OtherValues(id_key) ==
    {JsonArray(<<Entry(id_key, "ph1", "API Gateway", "gateway box")>>),
     JsonArray(<<>>),
     JsonString(<<"p", "h", "1">>),
     JsonNumber,
     JsonNull}

Responses(id_key) ==
    {Response(form, v, FALSE) :
        form \in {"json", "fenced"}, v \in ObjectValues(id_key) \cup OtherValues(id_key)}
        \cup {Response("prose_then_object", v, FALSE) : v \in ObjectValues(id_key)}
        \cup {Response("prose", NoJson, long) : long \in BOOLEAN}
        \cup {Response("fenced_prose", NoJson, FALSE),
              Response("prose_with_braces", NoJson, FALSE)}

InitParse ==
    /\ pc = "prompted"
    /\ slide \in {SlideOf(<<"ph1">>), SlideOf(<<"ph1", "ph2">>)}
    /\ components \in Catalogs
    /\ call = [op |-> "messages.create"]
    /\ data = None /\ result = None
    /\ scanned = Idle /\ placeholders = Idle
    /\ prs = Idle /\ architecture_slides = Idle /\ count = Idle
    /\ applied_slides = Idle

\* DSDAgent.create_mapping, the model answering with the text response
CreateMappingFromResponse ==
    /\ pc = "prompted"
    /\ \E response \in Responses("shape_name") :
          LET r == create_mapping_response(slide, components, response,
                                           "shape_name", TRUE)
          IN  /\ result' = r.result
              /\ call' = [op |-> "create_mapping", response |-> response,
                          exc |-> r.exc]
              /\ pc' = IF r.raised THEN "failed" ELSE "mapped"
    /\ UNCHANGED <<scanned, placeholders, slide, components, data, prs,
                   architecture_slides, count, applied_slides>>

\* GoogleSlidesAgent.create_mapping, the model answering with the text response
GoogleCreateMappingFromResponse ==
    /\ pc = "prompted"
    /\ \E response \in Responses("object_id") :
          LET r == create_mapping_response(slide, components, response,
                                           "object_id", FALSE)
          IN  /\ result' = r.result
              /\ call' = [op |-> "google.create_mapping", response |-> response,
                          exc |-> r.exc]
              /\ pc' = IF r.raised THEN "google_failed" ELSE "google_mapped"
    /\ UNCHANGED <<scanned, placeholders, slide, components, data, prs,
                   architecture_slides, count, applied_slides>>

NextParse == CreateMappingFromResponse \/ GoogleCreateMappingFromResponse

SpecParse == InitParse /\ [][NextParse]_vars

(***************************************************************************)
(* The PowerPoint document store and a session of the agent                *)
(***************************************************************************)

\* One shape of a slide.  runs are the text runs of its text frame in
\* document order (of all its paragraphs); the shape's text is their
\* concatenation.  left and top are in EMU.
Shape(name, has_text_frame, runs, left, top) ==
    [name |-> name, has_text_frame |-> has_text_frame, runs |-> runs,
     left |-> left, top |-> top]

\* "lorem" in text.lower(): the run texts of the model that contain it
LoremTexts == {"Lorem ipsum", "lorem", "LOREM IPSUM"}
ContainsLorem(runs) == \E i \in DOMAIN runs : runs[i] \in LoremTexts

\* find_architecture_slides, lines 94-111: the placeholders of one slide, in
\* shape order, each with row_group = 0
CollectPlaceholders(idx, sl) ==
    LET lorem == SelectSeq(sl.shapes,
                           LAMBDA sh : sh.has_text_frame /\ ContainsLorem(sh.runs))
    IN  [i \in DOMAIN lorem |->
            Placeholder(idx, sl.title, lorem[i].name, lorem[i].runs,
                        lorem[i].left, lorem[i].top, 0)]

\* A scan that keeps the placeholders in shape order (no grouping, no sort).
scan_slide_unsorted(idx, sl) ==
    ArchitectureSlide(idx, sl.title, CollectPlaceholders(idx, sl))

\* find_architecture_slides, lines 92-122, for the slide at 0-based idx
scan_slide(idx, sl) ==
    ArchitectureSlide(idx, sl.title,
                      normalize_placeholders(CollectPlaceholders(idx, sl)))

\* find_architecture_slides, lines 90-122: the slides that have placeholders
scan_presentation(p) ==
    LET all == [i \in DOMAIN p |-> scan_slide(i - 1, p[i])]
    IN  SelectSeq(all, LAMBDA s : s.placeholders # <<>>)

\* DSDAgent._format_placeholders: the lines of the prompt, a row header
\* where the row changes and one line for each placeholder
RECURSIVE format_placeholders_from(_, _, _)
format_placeholders_from(phs, i, current_row) ==
    IF i > Len(phs) THEN <<>>
    ELSE LET ph == phs[i]
             item == <<[kind |-> "item", shape_name |-> ph.shape_name,
                        left |-> ph.left, top |-> ph.top]>>
         IN  IF ph.row_group # current_row
             THEN <<[kind |-> "row", row |-> ph.row_group + 1]>> \o item
                      \o format_placeholders_from(phs, i + 1, ph.row_group)
             ELSE item \o format_placeholders_from(phs, i + 1, current_row)

format_placeholders(phs) == format_placeholders_from(phs, 1, -1)

\* A replacement that puts the new text in front of the runs of the shape.
update_placeholder_insert(p, slide_index, shape_name, new_text) ==
    IF slide_index < 0 \/ slide_index >= Len(p)
    THEN [prs |-> p, ret |-> "False"]
    ELSE LET shapes == p[slide_index + 1].shapes
             hits == {i \in DOMAIN shapes :
                         shapes[i].name = shape_name /\ shapes[i].has_text_frame}
         IN  IF hits = {} THEN [prs |-> p, ret |-> "False"]
             ELSE LET i == CHOOSE h \in hits : \A k \in hits : h <= k
                  IN  IF shapes[i].runs # <<>>
                      THEN [prs |-> [p EXCEPT ![slide_index + 1].shapes[i].runs =
                                        <<new_text>> \o shapes[i].runs],
                            ret |-> "True"]
                      ELSE [prs |-> p, ret |-> "IndexError"]

\* A replacement that takes a negative slide_index as Python's indexing
\* does, counting from the last slide.
update_placeholder_from_end(p, slide_index, shape_name, new_text) ==
    IF slide_index < -Len(p) \/ slide_index >= Len(p)
    THEN [prs |-> p, ret |-> "False"]
    ELSE LET at == IF slide_index < 0 THEN Len(p) + slide_index + 1
                   ELSE slide_index + 1
             shapes == p[at].shapes
             hits == {i \in DOMAIN shapes :
                         shapes[i].name = shape_name /\ shapes[i].has_text_frame}
         IN  IF hits = {} THEN [prs |-> p, ret |-> "False"]
             ELSE LET i == CHOOSE h \in hits : \A k \in hits : h <= k
                  IN  IF shapes[i].runs # <<>>
                      THEN [prs |-> [p EXCEPT ![at].shapes[i].runs[1] = new_text],
                            ret |-> "True"]
                      ELSE [prs |-> p, ret |-> "IndexError"]

\* A replacement that writes the first shape of the slide that has a text
\* frame with a run, whatever its name.
update_placeholder_any_shape(p, slide_index, shape_name, new_text) ==
    IF slide_index < 0 \/ slide_index >= Len(p)
    THEN [prs |-> p, ret |-> "False"]
    ELSE LET shapes == p[slide_index + 1].shapes
             hits == {i \in DOMAIN shapes :
                         shapes[i].has_text_frame /\ shapes[i].runs # <<>>}
         IN  IF hits = {} THEN [prs |-> p, ret |-> "False"]
             ELSE LET i == CHOOSE h \in hits : \A k \in hits : h <= k
                  IN  [prs |-> [p EXCEPT
                                   ![slide_index + 1].shapes[i].runs[1] = new_text],
                       ret |-> "True"]

\* DSDDocument.update_placeholder: the presentation afterwards and what the
\* call did: "True", "False", or "IndexError" when the first matching shape
\* has a text frame without any run (paragraphs[0].runs[0]).
update_placeholder(p, slide_index, shape_name, new_text) ==
    IF slide_index < 0 \/ slide_index >= Len(p)
    THEN [prs |-> p, ret |-> "False"]
    ELSE LET shapes == p[slide_index + 1].shapes
             hits == {i \in DOMAIN shapes :
                         shapes[i].name = shape_name /\ shapes[i].has_text_frame}
         IN  IF hits = {} THEN [prs |-> p, ret |-> "False"]
             ELSE LET i == CHOOSE h \in hits : \A k \in hits : h <= k
                  IN  IF shapes[i].runs # <<>>
                      THEN [prs |-> [p EXCEPT
                                ![slide_index + 1].shapes[i].runs[1] = new_text],
                            ret |-> "True"]
                      ELSE [prs |-> p, ret |-> "IndexError"]

\* DSDDocument.update_placeholders_batch over the items of the dict, in
\* insertion order; an exception of update_placeholder ends the loop.
RECURSIVE update_placeholders_batch(_, _, _)
update_placeholders_batch(p, updates, n) ==
    IF updates = <<>> THEN [prs |-> p, count |-> n, raised |-> FALSE]
    ELSE LET u == Head(updates)
             r == update_placeholder(p, u.slide_index, u.shape_name, u.new_text)
         IN  IF r.ret = "IndexError"
             THEN [prs |-> r.prs, count |-> n, raised |-> TRUE]
             ELSE update_placeholders_batch(r.prs, Tail(updates),
                                            IF r.ret = "True" THEN n + 1 ELSE n)

\* updates[(slide_index, ph.shape_name)] = comp.name for each pair: a key
\* keeps the position of its first insertion and the value of its last.
RECURSIVE build_updates(_, _, _)
build_updates(slide_index, mappings, updates) ==
    IF mappings = <<>> THEN updates
    ELSE LET ph == Head(mappings)[1]
             comp == Head(mappings)[2]
             at == {i \in DOMAIN updates : updates[i].shape_name = ph.shape_name}
         IN  build_updates(slide_index, Tail(mappings),
                 IF at = {}
                 THEN Append(updates, [slide_index |-> slide_index,
                                       shape_name |-> ph.shape_name,
                                       new_text |-> comp.name])
                 ELSE [i \in DOMAIN updates |->
                          IF i \in at THEN [updates[i] EXCEPT !.new_text = comp.name]
                          ELSE updates[i]])

\* DSDAgent.apply_mapping with a document loaded
apply_mapping(p, mapping_result) ==
    update_placeholders_batch(p,
        build_updates(mapping_result.slide_index, mapping_result.mappings, <<>>), 0)

\* slide_type_filter and slide_type_filter.lower() not in slide_type.lower();
\* the filter is a tuple of fragments, <<>> for None or ""
FilteredOut(slide_type_filter, slide_type) ==
    /\ slide_type_filter # <<>>
    /\ ~Contains(lower(Text(slide_type_filter)), lower(Text(slide_type)))

\* A run over the slides that leaves out a slide whose create_mapping
\* fails and goes on with the next one.
RECURSIVE populate_loop_skip_failed(_, _, _, _, _, _, _, _)
populate_loop_skip_failed(p, slides, comps, responses, slide_type_filter, dry_run, i, results) ==
    IF i > Len(slides)
    THEN [prs |-> p, raised |-> FALSE, at |-> 0, failed |-> None, ret |-> results]
    ELSE IF FilteredOut(slide_type_filter, determine_slide_type(slides[i]))
    THEN populate_loop_skip_failed(p, slides, comps, responses, slide_type_filter,
                                   dry_run, i + 1, results)
    ELSE LET mapping == create_mapping_response(slides[i], comps, responses[i],
                                                "shape_name", TRUE)
             applied == apply_mapping(p, mapping.result)
         IN  IF mapping.raised
             THEN populate_loop_skip_failed(p, slides, comps, responses,
                                            slide_type_filter, dry_run, i + 1, results)
             ELSE IF dry_run
             THEN populate_loop_skip_failed(p, slides, comps, responses,
                      slide_type_filter, dry_run, i + 1,
                      Append(results, mapping.result))
             ELSE IF applied.raised
             THEN [prs |-> applied.prs, raised |-> TRUE, at |-> i,
                   failed |-> "apply_mapping", ret |-> <<>>]
             ELSE populate_loop_skip_failed(applied.prs, slides, comps, responses,
                      slide_type_filter, dry_run, i + 1,
                      Append(results, mapping.result))

\* DSDAgent.populate_all_slides, the loop from slides[i] on; responses[i] is
\* what the model answers for slides[i].  An exception of create_mapping or
\* apply_mapping leaves the loop: at is the position of the slide, failed
\* the call that raised, and no list is returned.
RECURSIVE populate_loop(_, _, _, _, _, _, _, _)
populate_loop(p, slides, comps, responses, slide_type_filter, dry_run, i, results) ==
    IF i > Len(slides)
    THEN [prs |-> p, raised |-> FALSE, at |-> 0, failed |-> None, ret |-> results]
    ELSE IF FilteredOut(slide_type_filter, determine_slide_type(slides[i]))
    THEN populate_loop(p, slides, comps, responses, slide_type_filter,
                       dry_run, i + 1, results)
    ELSE LET mapping == create_mapping_response(slides[i], comps, responses[i],
                                                "shape_name", TRUE)
             applied == apply_mapping(p, mapping.result)
         IN  IF mapping.raised
             THEN [prs |-> p, raised |-> TRUE, at |-> i,
                   failed |-> "create_mapping", ret |-> <<>>]
             ELSE IF dry_run
             THEN populate_loop(p, slides, comps, responses, slide_type_filter,
                                dry_run, i + 1, Append(results, mapping.result))
             ELSE IF applied.raised
             THEN [prs |-> applied.prs, raised |-> TRUE, at |-> i,
                   failed |-> "apply_mapping", ret |-> <<>>]
             ELSE populate_loop(applied.prs, slides, comps, responses,
                                slide_type_filter, dry_run, i + 1,
                                Append(results, mapping.result))

\* DSDAgent.populate_all_slides on the slides of the scan
populate_all_slides(p, slides, comps, responses, slide_type_filter, dry_run) ==
    populate_loop(p, slides, comps, responses, slide_type_filter, dry_run, 1, <<>>)

\* DSDAgent.populate_slide on the slides of the scan; model_calls is the
\* number of messages.create calls made (one in create_mapping)
populate_slide(p, slides, comps, response, slide_index, dry_run) ==
    LET found == {i \in DOMAIN slides : slides[i].index = slide_index}
    IN  IF found = {}
        THEN [prs |-> p, raised |-> TRUE, failed |-> "populate_slide", ret |-> None,
              model_calls |-> 0]
        ELSE LET target_slide == slides[CHOOSE i \in found : \A k \in found : i <= k]
                 mapping == create_mapping_response(target_slide, comps, response,
                                                    "shape_name", TRUE)
                 applied == apply_mapping(p, mapping.result)
             IN  IF mapping.raised
                 THEN [prs |-> p, raised |-> TRUE, failed |-> "create_mapping",
                       ret |-> None, model_calls |-> 1]
                 ELSE IF dry_run
                 THEN [prs |-> p, raised |-> FALSE, failed |-> None,
                       ret |-> mapping.result, model_calls |-> 1]
                 ELSE IF applied.raised
                 THEN [prs |-> applied.prs, raised |-> TRUE,
                       failed |-> "apply_mapping", ret |-> None, model_calls |-> 1]
                 ELSE [prs |-> applied.prs, raised |-> FALSE, failed |-> None,
                       ret |-> mapping.result, model_calls |-> 1]

\* The check at the head of DSDAgent.apply_mapping, populate_slide,
\* populate_all_slides and save_document, before anything else is done:
\* what the call gives when self.document is None.
no_document_loaded(method) ==
    [op |-> "no_document", method |-> method, raised |-> TRUE,
     exc |-> Exception("ValueError", "No document loaded"), model_calls |-> 0]

DocumentMethods ==
    {"apply_mapping", "populate_slide", "populate_all_slides", "save_document"}

(***************************************************************************)
(* Inputs of a session                                                     *)
(***************************************************************************)

MaxShapes == 3

ShapePool ==
    {Shape("ph1", TRUE, <<"Lorem ipsum">>, 914400, 731520),
     Shape("ph2", TRUE, <<"Lorem ipsum", " dolor">>, 914400, 0),
     Shape("ph3", TRUE, <<"lorem">>, 0, 365760),
     Shape("Title 1", TRUE, <<"Current State">>, 0, 0),
     Shape("Picture 1", FALSE, <<>>, 0, 0),
     Shape("ph1", TRUE, <<>>, 0, 0)}

\* the shapes of a slide: distinct shapes of the pool, in any z-order.  Shape
\* names are not unique in a .pptx: the pool has an empty text box that
\* bears the name of a placeholder.
ShapeLists ==
    {sh \in SeqsUpTo(ShapePool, MaxShapes) :
        \A i, j \in DOMAIN sh : sh[i] = sh[j] => i = j}

SecondSlide ==
    [title |-> <<W_Target, W_Space, W_State>>,
     shapes |-> <<Shape("Title 2", TRUE, <<"Target State">>, 0, 0),
                  Shape("ph1", TRUE, <<"LOREM IPSUM">>, 0, 0)>>]

Presentations ==
    UNION {{<<[title |-> <<W_Current, W_Space, W_State>>, shapes |-> sh]>>,
            <<[title |-> <<W_Current, W_Space, W_State>>, shapes |-> sh],
              SecondSlide>>} :
           sh \in ShapeLists}

SessionCatalogs ==
    {<<>>,
     <<SystemComponent("API Gateway", "integration", "", ""),
       SystemComponent("Mobile App", "channel", "", "")>>}

\* the responses of the model in a session
SessionResponses ==
    {<<>>,
     <<Entry("shape_name", "ph1", "API Gateway", "gateway box"),
       Entry("shape_name", "ph2", "Legacy ESB", Missing)>>,
     <<Entry("shape_name", "ph1", "API Gateway", "gateway box"),
       Entry("shape_name", "ph1", "Legacy ESB", "middle tier")>>,
     <<Entry("shape_name", "ph1", "Legacy ESB", "middle tier"),
       Entry("shape_name", "ph2", "Mobile App", Missing),
       Entry("shape_name", "ph1", "API Gateway", "gateway box")>>,
     <<Entry("shape_name", "ph9", "API Gateway", "gateway box"),
       Entry("shape_name", "ph3", "Mobile App", Missing)>>,
     <<Entry("shape_name", "ph2", "Legacy ESB", Missing),
       Entry("shape_name", "ph3", "API Gateway", "gateway box"),
       Entry("shape_name", "ph2", "Mobile App", Missing)>>}

\* Either a DSDAgent is constructed and analyze_source has run (pc is
\* "created": self.document is None, and prs is empty), or a DSDDocument is
\* constructed (pc is "loaded": its scan is not cached yet).  self.document
\* is None exactly when pc is "created" or "refused".
Init ==
    /\ \/ /\ pc = "created"
          /\ prs = <<>>
          /\ call = [op |-> "DSDAgent"]
       \/ /\ pc = "loaded"
          /\ prs \in Presentations
          /\ call = [op |-> "DSDDocument"]
    /\ architecture_slides = <<>>
    /\ components \in SessionCatalogs
    /\ slide = None /\ data = None /\ result = None
    /\ count = 0
    /\ applied_slides = {}
    /\ scanned = Idle /\ placeholders = Idle

\* DSDAgent.load_document: the DSDDocument is constructed and its summary
\* scans it, which fills the cache.
LoadDocument ==
    /\ pc \in {"created", "refused"}
    /\ prs' \in Presentations
    /\ architecture_slides' = <<scan_presentation(prs')>>
    /\ pc' = "scanned"
    /\ call' = [op |-> "load_document"]
    /\ UNCHANGED <<scanned, placeholders, slide, components, data, result,
                   count, applied_slides>>

\* apply_mapping, populate_slide, populate_all_slides or save_document
\* called on an agent that has no document
CallWithoutDocument ==
    /\ pc = "created"
    /\ \E method \in DocumentMethods : call' = no_document_loaded(method)
    /\ pc' = "refused"
    /\ UNCHANGED <<scanned, placeholders, slide, components, data, result,
                   prs, architecture_slides, count, applied_slides>>

\* DSDDocument.find_architecture_slides; architecture_slides is <<>> for
\* None and <<list>> for a cached list.
FindArchitectureSlides ==
    /\ pc \in {"loaded", "scanned", "applied", "updated"}
    /\ architecture_slides' =
          IF architecture_slides # <<>> THEN architecture_slides
          ELSE <<scan_presentation(prs)>>
    /\ pc' = IF pc = "loaded" THEN "scanned" ELSE pc
    /\ call' = [op |-> "find_architecture_slides", ret |-> architecture_slides'[1]]
    /\ UNCHANGED <<scanned, placeholders, slide, components, data, result,
                   prs, count, applied_slides>>

\* DSDAgent.create_mapping on a slide of the scan not populated yet, the
\* model answering with d
SessionCreateMapping ==
    /\ pc \in {"scanned", "applied"}
    /\ \E i \in DOMAIN architecture_slides[1] :
          /\ architecture_slides[1][i].index \notin applied_slides
          /\ slide' = architecture_slides[1][i]
    /\ \E d \in SessionResponses :
          /\ data' = d
          /\ result' = create_mapping(slide', components, d)
    /\ pc' = "mapped"
    /\ call' = [op |-> "create_mapping"]
    /\ UNCHANGED <<scanned, placeholders, components, prs,
                   architecture_slides, count, applied_slides>>

\* DSDAgent.apply_mapping on the MappingResult just created
ApplyMapping ==
    /\ pc = "mapped"
    /\ LET r == apply_mapping(prs, result)
       IN  /\ prs' = r.prs
           /\ count' = IF r.raised THEN count ELSE r.count
           /\ pc' = IF r.raised THEN "raised" ELSE "applied"
    /\ applied_slides' = applied_slides \cup {result.slide_index}
    /\ call' = [op |-> "apply_mapping", times |-> 1]
    /\ UNCHANGED <<scanned, placeholders, slide, components, data, result,
                   architecture_slides>>

\* The mappings of the session are applied once more (the download step of
\* the GUI applies every mapping of the session again); call.times is the
\* number of apply_mapping calls made with result so far.
ReapplyMapping ==
    /\ pc \in {"applied", "raised"}
    /\ call.op = "apply_mapping"
    /\ LET r == apply_mapping(prs, result)
       IN  /\ prs' = r.prs
           /\ count' = IF r.raised THEN count ELSE r.count
           /\ pc' = IF r.raised THEN "reraised" ELSE "reapplied"
    /\ call' = [op |-> "apply_mapping", times |-> call.times + 1]
    /\ UNCHANGED <<scanned, placeholders, slide, components, data, result,
                   architecture_slides, applied_slides>>

UpdateNames == {"ph1", "ph2", "ph9", "Picture 1"}

\* DSDDocument.update_placeholder called on its own
UpdatePlaceholder ==
    /\ pc \in {"loaded", "scanned"}
    /\ \E slide_index \in -1..Len(prs), shape_name \in UpdateNames :
          LET r == update_placeholder(prs, slide_index, shape_name, "API Gateway")
          IN  /\ prs' = r.prs
              /\ call' = [op |-> "update_placeholder", slide_index |-> slide_index,
                          shape_name |-> shape_name, new_text |-> "API Gateway",
                          ret |-> r.ret]
    /\ pc' = "updated"
    /\ UNCHANGED <<scanned, placeholders, slide, components, data, result,
                   architecture_slides, count, applied_slides>>

\* the responses of the model in a run over the slides
PopulateResponses ==
    {Response("json",
              JsonObject(JsonArray(
                  <<Entry("shape_name", "ph1", "API Gateway", "gateway box"),
                    Entry("shape_name", "ph2", "Legacy ESB", Missing)>>)), FALSE),
     Response("fenced",
              JsonObject(JsonArray(
                  <<Entry("shape_name", "ph3", "Mobile App", Missing),
                    Entry("shape_name", "ph1", "Mobile App", Missing)>>)), FALSE),
     Response("prose", NoJson, FALSE)}

\* --filter of the command line; <<>> when it is not given
Filters == {<<>>, <<W_Target>>, <<W_State>>}

\* What find_architecture_slides returns in the current state.  The agent
\* populates after load_document, whose summary has scanned the document.
ScanNow ==
    IF architecture_slides # <<>> THEN architecture_slides[1]
    ELSE scan_presentation(prs)

\* DSDAgent.populate_all_slides(analysis, slide_type_filter, dry_run)
PopulateAllSlides ==
    /\ pc = "scanned"
    /\ \E responses \in [DOMAIN ScanNow -> PopulateResponses],
          slide_type_filter \in Filters, dry_run \in BOOLEAN :
          LET r == populate_all_slides(prs, ScanNow, components, responses,
                                       slide_type_filter, dry_run)
          IN  /\ prs' = r.prs
              /\ call' = [op |-> "populate_all_slides", responses |-> responses,
                          slide_type_filter |-> slide_type_filter,
                          dry_run |-> dry_run, raised |-> r.raised, at |-> r.at,
                          failed |-> r.failed, ret |-> r.ret]
    /\ architecture_slides' = <<ScanNow>>
    /\ pc' = "populated"
    /\ UNCHANGED <<scanned, placeholders, slide, components, data, result,
                   count, applied_slides>>

\* DSDAgent.populate_slide(slide_index, analysis, dry_run)
PopulateSlide ==
    /\ pc = "scanned"
    /\ \E response \in PopulateResponses, slide_index \in 0..Len(prs),
          dry_run \in BOOLEAN :
          LET r == populate_slide(prs, ScanNow, components, response,
                                  slide_index, dry_run)
          IN  /\ prs' = r.prs
              /\ call' = [op |-> "populate_slide", response |-> response,
                          slide_index |-> slide_index, dry_run |-> dry_run,
                          raised |-> r.raised, failed |-> r.failed, ret |-> r.ret,
                          model_calls |-> r.model_calls]
    /\ architecture_slides' = <<ScanNow>>
    /\ pc' = "populated_slide"
    /\ UNCHANGED <<scanned, placeholders, slide, components, data, result,
                   count, applied_slides>>

Next ==
    \/ LoadDocument
    \/ CallWithoutDocument
    \/ FindArchitectureSlides
    \/ SessionCreateMapping
    \/ ApplyMapping
    \/ ReapplyMapping
    \/ UpdatePlaceholder
    \/ PopulateAllSlides
    \/ PopulateSlide

Spec == Init /\ [][Next]_vars

(***************************************************************************)
(* Properties of the reconciler, checked under SpecMap                     *)
(***************************************************************************)

Mapped == pc \in {"mapped", "google_mapped"}

\* the key under which the back end that produced result reads the identifier
IdKey == IF pc = "google_mapped" THEN "object_id" ELSE "shape_name"

MappedPlaceholders(r) == {r.mappings[i][1] : i \in DOMAIN r.mappings}
MappedComponents(r) == {r.mappings[i][2] : i \in DOMAIN r.mappings}

KnownId(m) == Get(m, IdKey) \in DictKeys(slide.placeholders, "shape_name")

\* the accepted entries of data, in order: the k-th one produced mappings[k]
Accepted == SelectSeq(data, KnownId)

C2_ComponentPartition ==
    Mapped =>
        \A c \in Range(components) :
            (c \in MappedComponents(result))
                # (c \in Range(result.unmapped_components))

\* C3: result.mappings holds at most one pair for each placeholder.
C3_OnePairPerPlaceholder ==
    Mapped =>
        \A i, j \in DOMAIN result.mappings :
            result.mappings[i][1].shape_name = result.mappings[j][1].shape_name
                => i = j

\* C5: an entry whose identifier is no placeholder of the slide is dropped
\* without effect: the result equals the result for the list without that
\* entry, and a catalog component named only by dropped entries stays in
\* unmapped_components.
C5_UnknownIdDropped ==
    Mapped =>
        /\ \A i \in DOMAIN data :
              ~KnownId(data[i]) =>
                  result = (IF pc = "google_mapped"
                            THEN google_create_mapping(slide, components,
                                                       RemoveAt(data, i))
                            ELSE create_mapping(slide, components,
                                                RemoveAt(data, i)))
        /\ \A c \in Range(components) :
              c.name \notin EntryNames(Accepted)
                  => c \in Range(result.unmapped_components)

C5_Witness ==
    /\ pc = "mapped"
    /\ Len(data) = 3
    /\ ~KnownId(data[3]) /\ KnownId(data[1]) /\ KnownId(data[2])
    /\ Get(data[3], "component_name") = "API Gateway"
    /\ "API Gateway" \notin EntryNames(Accepted)
    /\ \E c \in Range(result.unmapped_components) : c.name = "API Gateway"
    /\ Len(result.mappings) = 2

\* C6: the pair recorded for an accepted entry carries the catalog component
\* of that name when there is one, and otherwise a synthesized component of
\* category "unknown" whose name is the entry's component name, verbatim and
\* non-empty, and whose description is the entry's reasoning ("" if absent).
C6_ComponentResolution ==
    Mapped =>
        /\ Len(result.mappings) = Len(Accepted)
        /\ \A k \in DOMAIN result.mappings :
              LET m == Accepted[k]
                  comp == result.mappings[k][2]
                  name == Get(m, "component_name")
              IN  IF name \in DictKeys(components, "name")
                  THEN comp \in Range(components) /\ comp.name = name
                  ELSE /\ comp.category = "unknown"
                       /\ comp.name = name
                       /\ comp.name \notin {None, ""}
                       /\ comp.description = GetOr(m, "reasoning", "")

\* C7: result.unmapped_components holds records of the catalog only, and no
\* component synthesized for an unrecognized name is in it.
C7_UnmappedFromCatalog ==
    Mapped =>
        /\ Range(result.unmapped_components) \subseteq Range(components)
        /\ \A c \in MappedComponents(result) :
              c.name \notin DictKeys(components, "name")
                  => c \notin Range(result.unmapped_components)

C7_Witness ==
    /\ Mapped
    /\ result.unmapped_components # <<>>
    /\ \E c \in MappedComponents(result) :
          c.category = "unknown" /\ c.name = "Legacy ESB"

\* the positions of the entries of data whose identifier is, letter for
\* letter, the identifier of a placeholder of the slide
ExactlyKnown ==
    {i \in DOMAIN data :
        \E ph \in Range(slide.placeholders) : ph.shape_name = data[i][IdKey]}

\* the pair made for the entry at position i of data
PairOf(i) == result.mappings[Cardinality({j \in ExactlyKnown : j <= i})]

OnlyCaseDiffers(a, b) == a # b /\ CaseFold(a) = CaseFold(b)

\* C23: both lookups are exact, case-sensitive matches: an entry whose
\* identifier differs from a placeholder identifier only in letter case is
\* dropped, and an entry whose component name differs from a catalog name
\* only in letter case gets a synthesized "unknown" component while the
\* catalog component stays unmapped unless another accepted entry names it
\* exactly.
C23_ExactCaseSensitiveLookups ==
    Mapped =>
        /\ Len(result.mappings) = Cardinality(ExactlyKnown)
        /\ \A i \in ExactlyKnown :
              /\ PairOf(i)[1].shape_name = data[i][IdKey]
              /\ \A c \in Range(components) :
                    (/\ OnlyCaseDiffers(data[i].component_name, c.name)
                     /\ \A e \in Range(components) : e.name # data[i].component_name)
                    => /\ PairOf(i)[2].category = "unknown"
                       /\ PairOf(i)[2].name = data[i].component_name
                       /\ (\A j \in ExactlyKnown : data[j].component_name # c.name)
                             => c \in Range(result.unmapped_components)

C23_Witness ==
    /\ pc = "mapped"
    /\ data = <<Entry("shape_name", "PH1", "API Gateway", "gateway box"),
                Entry("shape_name", "ph2", "api gateway", Missing)>>
    /\ \E ph \in Range(slide.placeholders) : ph.shape_name = "ph1"
    /\ Len(result.mappings) = 1
    /\ result.mappings[1][2].category = "unknown"
    /\ \E c \in Range(result.unmapped_components) : c.name = "API Gateway"

\* sub is seq with some elements left out
RECURSIVE IsSubsequence(_, _)
IsSubsequence(sub, seq) ==
    IF sub = <<>> THEN TRUE
    ELSE IF seq = <<>> THEN FALSE
    ELSE IF Head(sub) = Head(seq) THEN IsSubsequence(Tail(sub), Tail(seq))
    ELSE IsSubsequence(sub, Tail(seq))

\* C25: create_mapping preserves orders: the pairs are in the order of the
\* accepted raw entries, unmapped_placeholders is a subsequence of
\* slide.placeholders and unmapped_components a subsequence of the catalog.
C25_OrdersPreserved ==
    Mapped =>
        /\ Len(result.mappings) = Len(Accepted)
        /\ \A k \in DOMAIN result.mappings :
              /\ result.mappings[k][1].shape_name = Accepted[k][IdKey]
              /\ result.mappings[k][2].name = Get(Accepted[k], "component_name")
        /\ IsSubsequence(result.unmapped_placeholders, slide.placeholders)
        /\ IsSubsequence(result.unmapped_components, components)

C25_Witness ==
    /\ pc = "mapped"
    /\ Len(data) = 3
    /\ [k \in 1..3 |-> data[k].shape_name] = <<"ph2", "ph9", "ph1">>
    /\ [k \in DOMAIN slide.placeholders |-> slide.placeholders[k].shape_name]
          = <<"ph1", "ph2">>
    /\ [k \in DOMAIN result.mappings |-> result.mappings[k][1].shape_name]
          = <<"ph2", "ph1">>
    /\ Len(result.unmapped_components) = 2
    /\ result.unmapped_components[1].name # result.unmapped_components[2].name

C25_WitnessPlaceholders ==
    /\ pc = "google_mapped"
    /\ Len(slide.placeholders) = 2
    /\ result.unmapped_placeholders = slide.placeholders
    /\ data # <<>>

Summarized == pc \in {"summarized", "google_summarized"}

\* the summary has a line of this kind that reports n
Reports(lines, kind, n) ==
    \E i \in DOMAIN lines : lines[i].kind = kind /\ lines[i].count = n

\* C22: the summary of a MappingResult always reports the number of
\* mappings, of unmapped placeholders and of unused components, also when
\* one of them is zero, for both back ends.
C22_SummaryReportsThreeCounts ==
    Summarized =>
        /\ Reports(call.ret, "mapped", Len(result.mappings))
        /\ Reports(call.ret, "unmapped_placeholders",
                   Len(result.unmapped_placeholders))
        /\ Reports(call.ret, "unused_components", Len(result.unmapped_components))

(***************************************************************************)
(* Properties of the geometry normalizer, checked under SpecRows           *)
(***************************************************************************)

RowGroups(phs) == [i \in DOMAIN phs |-> phs[i].row_group]

\* position a comes before position b when walking phs in ascending top
WalkedBefore(phs, a, b) ==
    \/ phs[a].top < phs[b].top
    \/ phs[a].top = phs[b].top /\ a < b

WalkedNext(phs, a, b) ==
    /\ WalkedBefore(phs, a, b)
    /\ ~\E c \in DOMAIN phs : WalkedBefore(phs, a, c) /\ WalkedBefore(phs, c, b)

\* the top of the placeholder that started row g: the smallest top in the row
RowStartTop(phs, g) ==
    CHOOSE t \in {phs[i].top : i \in {k \in DOMAIN phs : phs[k].row_group = g}} :
        \A i \in DOMAIN phs : phs[i].row_group = g => t <= phs[i].top

\* C8: _assign_row_groups is the single-pass grouping: the list comes back in
\* the order given with only row_group written; the smallest top is in row 0;
\* walking in ascending top, a placeholder starts a new row (the previous row
\* + 1) exactly when its top is more than 0.5" from the top that started the
\* current row, and otherwise stays in the current row; tops
\* [0.1, 0.15, 3.0, 3.05, 6.2] get [0,0,1,1,2]; the empty list is unchanged.
C8_SinglePassGrouping ==
    pc = "grouped" =>
        /\ Len(placeholders) = Len(scanned)
        /\ \A i \in DOMAIN scanned :
              placeholders[i] =
                  [scanned[i] EXCEPT !.row_group = placeholders[i].row_group]
        /\ \A a \in DOMAIN placeholders :
              (\A b \in DOMAIN placeholders : b # a => WalkedBefore(placeholders, a, b))
                  => placeholders[a].row_group = 0
        /\ \A a, b \in DOMAIN placeholders :
              WalkedNext(placeholders, a, b) =>
                  LET p == placeholders[a]
                      q == placeholders[b]
                      current_top == RowStartTop(placeholders, p.row_group)
                  IN  q.row_group =
                          IF 2 * Abs(q.top - current_top) > EMU_PER_INCH
                          THEN p.row_group + 1
                          ELSE p.row_group
        /\ scanned = ExampleInput => RowGroups(placeholders) = <<0, 0, 1, 1, 2>>
        /\ scanned = <<>> => placeholders = <<>>

C8_Witness ==
    /\ pc = "grouped"
    /\ scanned = ExampleInput
    /\ RowGroups(placeholders) = <<0, 0, 1, 1, 2>>

\* a chain of tops each within 0.5" of the one before is split at the row start
C8_WitnessChain ==
    /\ pc = "grouped"
    /\ Len(scanned) = 3
    /\ scanned[1].top = 731520 /\ scanned[2].top = 0 /\ scanned[3].top = 365760
    /\ RowGroups(placeholders) = <<1, 0, 0>>

UsedRows(phs) == {phs[i].row_group : i \in DOMAIN phs}

\* C26: after _assign_row_groups on a non-empty list the row groups are
\* monotone in top (a.top <= b.top implies a.row_group <= b.row_group, so
\* equal tops share a row), the smallest top is in row 0, and the row groups
\* used are exactly 0..k.
C26_MonotoneContiguousRows ==
    (pc = "grouped" /\ placeholders # <<>>) =>
        /\ \A a, b \in DOMAIN placeholders :
              placeholders[a].top <= placeholders[b].top
                  => placeholders[a].row_group <= placeholders[b].row_group
        /\ \A a \in DOMAIN placeholders :
              (\A b \in DOMAIN placeholders :
                  placeholders[a].top <= placeholders[b].top)
                  => placeholders[a].row_group = 0
        /\ \E k \in 0..Len(placeholders) : UsedRows(placeholders) = 0..k

C26_Witness ==
    /\ pc = "grouped"
    /\ [i \in DOMAIN scanned |-> scanned[i].top] = <<914400, 0, 0>>
    /\ RowGroups(placeholders) = <<1, 0, 0>>

\* C27: two placeholders of one row have tops at most 0.5" apart, and the
\* smallest tops of two consecutive rows are more than 0.5" apart; a chain
\* of tops 0, 0.4, 0.8 (each within 0.5" of the one before) is split where
\* the distance from the top that started the row exceeds 0.5".
C27_RowSpanAndGap ==
    pc = "grouped" =>
        /\ \A a, b \in DOMAIN placeholders :
              placeholders[a].row_group = placeholders[b].row_group
                  => 2 * Abs(placeholders[a].top - placeholders[b].top)
                         <= EMU_PER_INCH
        /\ \A g \in UsedRows(placeholders) :
              (g + 1) \in UsedRows(placeholders)
                  => 2 * (RowStartTop(placeholders, g + 1)
                           - RowStartTop(placeholders, g)) > EMU_PER_INCH
        /\ \A a, b, c \in DOMAIN placeholders :
              (/\ placeholders[a].top = 0 /\ placeholders[b].top = 365760
               /\ placeholders[c].top = 731520)
                  => /\ placeholders[a].row_group = placeholders[b].row_group
                     /\ placeholders[c].row_group = placeholders[a].row_group + 1

C27_Witness ==
    /\ pc = "grouped"
    /\ [i \in DOMAIN scanned |-> scanned[i].top] = <<0, 365760, 731520>>
    /\ RowGroups(placeholders) = <<0, 0, 1>>

C27_WitnessBoundary ==
    /\ pc = "grouped"
    /\ [i \in DOMAIN scanned |-> scanned[i].top] = <<457200, 0, 461772>>
    /\ RowGroups(placeholders) = <<0, 0, 1>>

Reorderings(s) ==
    {[i \in DOMAIN s |-> s[f[i]]] :
        f \in {g \in [DOMAIN s -> DOMAIN s] :
                  \A i, j \in DOMAIN s : g[i] = g[j] => i = j}}

PositionOf(s, ph) == CHOOSE i \in DOMAIN s : s[i].shape_name = ph.shape_name

\* C9 as claimed: for every permutation of the scanned placeholders the
\* normalized list (row groups and final order) is the same list.
C9_OrderIndependent ==
    pc = "normalized" =>
        \A perm \in Reorderings(scanned) :
            normalize_placeholders(perm) = placeholders

\* C9 as amended: for every permutation each placeholder gets the same
\* row_group, and the final order is the same up to the relative order of
\* placeholders with equal (row_group, left), which keep their input order;
\* so without such ties the final list is identical.
C9_OrderIndependentUpToTies ==
    pc = "normalized" =>
        \A perm \in Reorderings(scanned) :
            LET out == normalize_placeholders(perm)
            IN  /\ Range(out) = Range(placeholders)
                /\ \A i \in DOMAIN out : KeyEq(out[i], placeholders[i])
                /\ \A i, j \in DOMAIN out :
                      i < j /\ KeyEq(out[i], out[j])
                          => PositionOf(perm, out[i]) < PositionOf(perm, out[j])
                /\ (\A i, j \in DOMAIN out : KeyEq(out[i], out[j]) => i = j)
                      => out = placeholders

C9_Witness ==
    /\ pc = "normalized"
    /\ Len(scanned) = 3
    /\ KeyEq(placeholders[1], placeholders[2])
    /\ placeholders[3].row_group = 1
    /\ \E perm \in Reorderings(scanned) :
          /\ perm # scanned
          /\ normalize_placeholders(perm) # placeholders

(***************************************************************************)
(* Properties of a session, checked under Spec                             *)
(***************************************************************************)

\* the runs of the shape update_placeholder writes for (slide_index, name)
WrittenShape(p, slide_index, name) ==
    LET shapes == p[slide_index + 1].shapes
        hits == {i \in DOMAIN shapes :
                    shapes[i].name = name /\ shapes[i].has_text_frame}
    IN  shapes[CHOOSE h \in hits : \A k \in hits : h <= k]

\* C4: when the response names a known placeholder in two entries with
\* different component names, the first one wins: after create_mapping and
\* apply_mapping the text written to the shape is the component name of the
\* first entry naming it.
C4_FirstOccurrenceWins ==
    pc = "applied" =>
        \A i, j \in DOMAIN data :
            /\ i < j
            /\ KnownId(data[i])
            /\ Get(data[i], "shape_name") = Get(data[j], "shape_name")
            /\ Get(data[i], "component_name") # Get(data[j], "component_name")
            /\ \A k \in 1..(i - 1) :
                  Get(data[k], "shape_name") # Get(data[i], "shape_name")
            => WrittenShape(prs, slide.index, Get(data[i], "shape_name")).runs[1]
                   = Get(data[i], "component_name")

SortedByRowLeft(phs) ==
    \A i \in 1..(Len(phs) - 1) :
        \/ phs[i].row_group < phs[i + 1].row_group
        \/ /\ phs[i].row_group = phs[i + 1].row_group
           /\ phs[i].left <= phs[i + 1].left

PromptItems(lines) == SelectSeq(lines, LAMBDA l : l.kind = "item")
PromptRows(lines) == SelectSeq(lines, LAMBDA l : l.kind = "row")

\* C10: the placeholders of every ArchitectureSlide that
\* find_architecture_slides returns are sorted by (row_group, left), and the
\* prompt of create_mapping lists them in that order, each row announced once.
C10_SortedByRowLeft ==
    /\ \A c \in Range(architecture_slides) :
          \A s \in Range(c) : SortedByRowLeft(s.placeholders)
    /\ pc \in {"mapped", "applied", "raised"} =>
          LET lines == format_placeholders(slide.placeholders)
              items == PromptItems(lines)
              rows == PromptRows(lines)
          IN  /\ SortedByRowLeft(slide.placeholders)
              /\ [i \in DOMAIN items |-> items[i].shape_name]
                    = [i \in DOMAIN slide.placeholders |->
                          slide.placeholders[i].shape_name]
              /\ \A i \in 1..(Len(rows) - 1) : rows[i].row < rows[i + 1].row

C10_Witness ==
    /\ pc = "mapped"
    /\ Len(slide.placeholders) = 3
    /\ slide.placeholders[3].row_group = 1
    /\ slide.placeholders # CollectPlaceholders(slide.index, prs[slide.index + 1])
    /\ [i \in 1..3 |-> slide.placeholders[i].row_group] = <<0, 0, 1>>

\* the states in which slide holds the ArchitectureSlide given to create_mapping
SlideHeld == pc \in {"mapped", "applied", "raised", "reapplied", "reraised"}

NormalizerAssigned(phs) ==
    /\ \A i \in DOMAIN phs : phs[i].row_group >= 0
    /\ assign_row_groups(phs) = phs

\* C11: every placeholder of every slide find_architecture_slides returns
\* has a non-negative row_group, the one the normalizer assigns from the
\* tops; the slide and the placeholders the mapping logic works on are those
\* of the scan, and once the scan is held its row groups never change.
C11_RowGroupAssignedOnce ==
    /\ [](/\ \A c \in Range(architecture_slides) :
                \A s \in Range(c) : NormalizerAssigned(s.placeholders)
          /\ SlideHeld =>
                /\ slide \in Range(architecture_slides[1])
                /\ \A m \in Range(result.mappings) :
                      m[1] \in Range(slide.placeholders)
                /\ Range(result.unmapped_placeholders)
                      \subseteq Range(slide.placeholders))
    /\ [][architecture_slides # <<>> =>
             architecture_slides' = architecture_slides]_vars

C11_Witness ==
    /\ pc = "applied"
    /\ count = 2
    /\ \E i \in DOMAIN slide.placeholders : slide.placeholders[i].row_group = 1
    /\ \E m \in Range(result.mappings) : m[1].row_group = 1

\* C12: the scan is never cached across edits: after apply_mapping or
\* update_placeholder has changed shape text, what find_architecture_slides
\* returns lists only shapes whose text contains "lorem" now.
C12_RescanReflectsDocument ==
    call.op = "find_architecture_slides" =>
        \A s \in Range(call.ret) :
            \A ph \in Range(s.placeholders) :
                \E sh \in Range(prs[s.index + 1].shapes) :
                    /\ sh.name = ph.shape_name
                    /\ sh.has_text_frame
                    /\ ContainsLorem(sh.runs)

\* the writes apply_mapping asks of the document store for result
Updates == build_updates(result.slide_index, result.mappings, <<>>)

\* C14: apply_mapping writes once for each pair of result.mappings and
\* returns the number of successful writes, so when every write succeeds the
\* count is len(result.mappings), for every MappingResult of create_mapping.
C14_CountIsNumberOfPairs ==
    (pc = "applied" /\ call.op = "apply_mapping" /\ count = Len(Updates))
        => count = Len(result.mappings)

\* C15: apply_mapping is idempotent: applying the same MappingResult a
\* second time leaves every shape as the first application left it, and
\* returns the same count (or raises again, when the first one raised).
C15_ApplyIdempotent ==
    [][pc' \in {"reapplied", "reraised"} =>
          /\ prs' = prs
          /\ count' = count
          /\ (pc' = "reapplied") = (pc = "applied")]_vars

C15_Witness ==
    /\ pc = "reapplied"
    /\ count = 2
    /\ \E sh \in Range(prs[slide.index + 1].shapes) :
          sh.name = "ph2" /\ Len(sh.runs) = 2 /\ sh.runs[1] \notin LoremTexts

\* the text of a shape, the concatenation of its runs, is t
FullTextIs(runs, t) ==
    \E i \in DOMAIN runs :
        runs[i] = t /\ \A j \in DOMAIN runs \ {i} : runs[j] = ""

\* C16: after update_placeholder returns True for (slide, shape, new_text)
\* the full text of the shape is new_text, also when the text was split over
\* several runs.
C16_WholesaleReplacement ==
    (call.op = "update_placeholder" /\ call.ret = "True") =>
        FullTextIs(WrittenShape(prs, call.slide_index, call.shape_name).runs,
                   call.new_text)

\* the write u finds a shape to write: the first text-frame shape of that
\* name on the slide has a run
Writable(p, u) ==
    LET shapes == p[u.slide_index + 1].shapes
        hits == {i \in DOMAIN shapes :
                    shapes[i].name = u.shape_name /\ shapes[i].has_text_frame}
    IN  hits # {} /\ shapes[CHOOSE h \in hits : \A k \in hits : h <= k].runs # <<>>

\* C17: applying a mapping is best-effort: no exception leaves
\* apply_mapping, every pair whose write can succeed is written although the
\* write of another pair failed, and the count is the number of those.
C17_BestEffort ==
    (call.op = "apply_mapping" /\ pc \in {"applied", "raised"}) =>
        /\ pc = "applied"
        /\ \A i \in DOMAIN Updates :
              Writable(prs, Updates[i]) =>
                  WrittenShape(prs, Updates[i].slide_index,
                               Updates[i].shape_name).runs[1] = Updates[i].new_text
        /\ count = Cardinality({i \in DOMAIN Updates : Writable(prs, Updates[i])})

\* populate_all_slides has just run: the slides it went over, and for the
\* slide at position i of them whether the filter lets it through and what
\* create_mapping gives for it
RunSlides == architecture_slides'[1]
RunMatches(i) ==
    ~FilteredOut(call'.slide_type_filter, determine_slide_type(RunSlides[i]))
RunMapping(i) ==
    create_mapping_response(RunSlides[i], components, call'.responses[i],
                            "shape_name", TRUE)
RunWrites(i) == RunMatches(i) /\ ~call'.dry_run
SlideAt(p, i) == p[RunSlides[i].index + 1]

\* C20: populate_all_slides goes over the matching slides one at a time in
\* source order; when create_mapping fails on slide N the run halts with
\* that error, the slides before N keep the writes made for them, and
\* neither slide N nor a later slide is written.  When nothing fails the
\* results come back in the order of the slides.
C20_SequentialHalt ==
    [][call'.op = "populate_all_slides" =>
          \A n \in DOMAIN RunSlides :
              /\ (/\ RunMatches(n) /\ RunMapping(n).raised
                  /\ \A k \in 1..(n - 1) :
                        RunMatches(k) =>
                            /\ ~RunMapping(k).raised
                            /\ RunWrites(k) =>
                                  ~apply_mapping(prs, RunMapping(k).result).raised)
                 => /\ call'.raised
                    /\ call'.failed = "create_mapping"
                    /\ call'.at = n
                    /\ \A k \in 1..(n - 1) :
                          SlideAt(prs', k) =
                              IF RunWrites(k)
                              THEN SlideAt(apply_mapping(prs, RunMapping(k).result).prs, k)
                              ELSE SlideAt(prs, k)
                    /\ \A k \in n..Len(RunSlides) : SlideAt(prs', k) = SlideAt(prs, k)
              /\ ~call'.raised =>
                    LET done == {k \in DOMAIN RunSlides : RunMatches(k)}
                    IN  /\ Len(call'.ret) = Cardinality(done)
                        /\ \A a, b \in DOMAIN call'.ret :
                              a < b => call'.ret[a].slide_index < call'.ret[b].slide_index
                        /\ \A k \in done :
                              \E a \in DOMAIN call'.ret :
                                  call'.ret[a] = RunMapping(k).result]_vars

C20_Witness ==
    /\ pc = "populated"
    /\ call.raised /\ call.failed = "create_mapping" /\ call.at = 2
    /\ ~call.dry_run
    /\ call.slide_type_filter = <<W_State>>
    /\ \E sh \in Range(prs[1].shapes) : sh.name = "ph2" /\ sh.runs[1] = "Legacy ESB"
    /\ \E sh \in Range(prs[2].shapes) : sh.name = "ph1" /\ sh.runs[1] = "LOREM IPSUM"

\* C21: with dry_run set, populate_slide and populate_all_slides write
\* nothing (every shape text is as before the call) and return what the
\* same call returns without dry_run.
C21_DryRunSameResults ==
    [][/\ (call'.op = "populate_all_slides" /\ call'.dry_run) =>
              LET wet == populate_all_slides(prs, architecture_slides'[1], components,
                             call'.responses, call'.slide_type_filter, FALSE)
              IN  /\ prs' = prs
                  /\ call'.raised = wet.raised
                  /\ call'.ret = wet.ret
       /\ (call'.op = "populate_slide" /\ call'.dry_run) =>
              LET wet == populate_slide(prs, architecture_slides'[1], components,
                             call'.response, call'.slide_index, FALSE)
              IN  /\ prs' = prs
                  /\ call'.raised = wet.raised
                  /\ call'.ret = wet.ret]_vars

\* C24: a MappingResult is applied to the document at most once in a
\* session: apply_mapping is called at most one time with it.
C24_AppliedAtMostOnce ==
    call.op = "apply_mapping" => call.times <= 1

\* the names of the placeholders result.mappings pairs with a component
MappedNames == {m[1].shape_name : m \in Range(result.mappings)}

\* the shapes of slide s (1-based position in the document) with a name in
\* names have the same text before and after the step
SameShapes(s, names) ==
    /\ Len(prs'[s].shapes) = Len(prs[s].shapes)
    /\ \A i \in DOMAIN prs[s].shapes :
          prs[s].shapes[i].name \in names
              => prs'[s].shapes[i] = prs[s].shapes[i]

NamesOn(s) == {prs[s].shapes[i].name : i \in DOMAIN prs[s].shapes}
UnmappedNames == {ph.shape_name : ph \in Range(result.unmapped_placeholders)}

\* C28: apply_mapping changes only what the mapping names: every shape of
\* another slide, and every shape of the slide whose name is not that of a
\* placeholder in result.mappings (every unmapped placeholder among them),
\* keeps its text, also when the call raises; create_mapping changes
\* neither the document, nor the placeholders of the scan, nor the catalog.
C28_ApplyChangesOnlyMapped ==
    [][/\ call'.op = "apply_mapping" =>
              /\ Len(prs') = Len(prs)
              /\ \A s \in DOMAIN prs :
                    IF s # result.slide_index + 1
                    THEN SameShapes(s, NamesOn(s))
                    ELSE /\ SameShapes(s, NamesOn(s) \ MappedNames)
                         /\ SameShapes(s, UnmappedNames)
              /\ result' = result
       /\ call'.op = "create_mapping" =>
              /\ prs' = prs
              /\ architecture_slides' = architecture_slides
              /\ components' = components
              /\ slide' \in Range(architecture_slides[1])
              /\ result' = create_mapping(slide', components, data')]_vars

C28_Witness ==
    /\ pc = "applied"
    /\ call.op = "apply_mapping"
    /\ count = 1
    /\ result.slide_index = 0
    /\ result.unmapped_placeholders # <<>>
    /\ Len(prs) = 2
    /\ prs[2] = SecondSlide
    /\ \E sh \in Range(prs[1].shapes) :
          sh.name \in MappedNames /\ sh.runs[1] \notin LoremTexts
    /\ \E sh \in Range(prs[1].shapes) :
          sh.name \notin MappedNames /\ ContainsLorem(sh.runs)

\* self.document is None
NoDocument == pc \in {"created", "refused"}

\* slide_index is not the index of a slide of p that has a placeholder
NoPlaceholdersAt(p, slide_index) ==
    \/ (slide_index + 1) \notin DOMAIN p
    \/ ~\E sh \in Range(p[slide_index + 1].shapes) :
           sh.has_text_frame /\ ContainsLorem(sh.runs)

\* slide_index is out of range, or no shape of that name on the slide has a
\* text frame
NothingToUpdate(p, slide_index, shape_name) ==
    \/ (slide_index + 1) \notin DOMAIN p
    \/ ~\E sh \in Range(p[slide_index + 1].shapes) :
           sh.name = shape_name /\ sh.has_text_frame

\* C30: precondition failures are reported before anything happens.  A call
\* of apply_mapping, populate_slide, populate_all_slides or save_document
\* without a document raises ValueError, and so does populate_slide for a
\* slide_index that is not that of a slide with placeholders: no model call
\* is made and no shape text changes.  update_placeholder returns False and
\* changes nothing when slide_index is out of range or no shape of that name
\* has a text frame.
C30_PreconditionFailures ==
    [][/\ (NoDocument /\ NoDocument' /\ call' # call) =>
              /\ call'.method \in DocumentMethods
              /\ call'.raised
              /\ call'.exc.type = "ValueError"
              /\ call'.model_calls = 0
              /\ prs' = prs
       /\ (/\ call'.op = "populate_slide"
           /\ NoPlaceholdersAt(prs, call'.slide_index)) =>
              /\ call'.raised
              /\ call'.failed = "populate_slide"
              /\ call'.model_calls = 0
              /\ prs' = prs
       /\ (/\ call'.op = "update_placeholder"
           /\ NothingToUpdate(prs, call'.slide_index, call'.shape_name)) =>
              /\ call'.ret = "False"
              /\ prs' = prs]_vars

C30_Witness ==
    /\ pc = "refused"
    /\ call.method = "populate_all_slides"
    /\ call.exc = Exception("ValueError", "No document loaded")
    /\ prs = <<>>

C30_WitnessSlide ==
    /\ pc = "populated_slide"
    /\ call.failed = "populate_slide"
    /\ ~call.dry_run
    /\ call.slide_index = 0
    /\ prs[1].shapes # <<>>

C30_WitnessNoTextFrame ==
    /\ pc = "updated"
    /\ call.ret = "False"
    /\ call.shape_name = "Picture 1"
    /\ (call.slide_index + 1) \in DOMAIN prs
    /\ \E sh \in Range(prs[call.slide_index + 1].shapes) : sh.name = "Picture 1"

C30_WitnessNegativeIndex ==
    /\ pc = "updated"
    /\ call.ret = "False"
    /\ call.slide_index = -1
    /\ call.shape_name = "ph1"
    /\ \E sh \in Range(prs[Len(prs)].shapes) : sh.name = "ph1" /\ sh.runs # <<>>

(***************************************************************************)
(* Properties of the reading of the response, checked under SpecParse      *)
(***************************************************************************)

Answered == pc \in {"mapped", "failed", "google_mapped", "google_failed"}
Failed == pc \in {"failed", "google_failed"}

\* the response is an object whose "mappings" is a list of records
ListOfRecords(response) ==
    /\ response.form \in {"json", "fenced", "prose_then_object"}
    /\ response.value.json = "object"
    /\ response.value.mappings.json = "array"
    /\ \A i \in DOMAIN response.value.mappings.items :
          IsDict(response.value.mappings.items[i])

\* the response is an object without a "mappings" key
NoMappingsKey(response) ==
    /\ response.form \in {"json", "fenced", "prose_then_object"}
    /\ response.value.json = "object"
    /\ response.value.mappings = JsonMissing

\* C18: when the response cannot be read as a list of pair-like records (a
\* bare string, a JSON list, a "mappings" value that is no list of records)
\* create_mapping fails with one parse failure that carries the original
\* response text, and returns no MappingResult.
C18_MalformedResponseFails ==
    (Answered /\ ~ListOfRecords(call.response) /\ ~NoMappingsKey(call.response))
        => /\ Failed
           /\ result = None
           /\ call.exc = Exception("ValueError", "response_text")

\* C19: a response that cannot be interpreted as the expected shape is a
\* failure, never an empty result: create_mapping returns a MappingResult
\* (with zero mappings or more) only for a well-formed list of records, not
\* for a JSON object that has no "mappings" list.
C19_NeverEmptyForUninterpretable ==
    (Answered /\ ~Failed) => ListOfRecords(call.response)

(***************************************************************************)
(* Properties of the slide classifier, checked under SpecClassify          *)
(***************************************************************************)

\* the fragments of the title inputs that hold a keyword in some case
Mentions(title, fragments) == \E i \in DOMAIN title : title[i] \in fragments
MentionsNorthStar(title) ==
    \E i \in 1..(Len(title) - 2) :
        title[i] = W_North /\ title[i + 1] = W_Space /\ title[i + 2] = W_STAR

\* C13: the classifier is a total, case-insensitive, first-match-wins
\* function of the title and changes nothing: "current" gives Current
\* State; otherwise "target" or "future" gives Target State; otherwise
\* "timeline" gives Implementation Timeline; otherwise "north star" or
\* "vision" gives Vision/Goals; every other title, the empty one included,
\* gives Architecture Diagram.
C13_ClassifierFirstMatch ==
    pc = "classified" =>
        /\ slide \in {ArchitectureSlide(0, t, <<>>) : t \in Titles}
        /\ call.ret =
              IF Mentions(slide.title, {W_Current, W_CONCURRENT})
              THEN CURRENT_STATE
              ELSE IF Mentions(slide.title, {W_Target, W_future})
              THEN TARGET_STATE
              ELSE IF Mentions(slide.title, {W_TimeLine})
              THEN IMPLEMENTATION_TIMELINE
              ELSE IF MentionsNorthStar(slide.title)
                      \/ Mentions(slide.title, {W_Vision})
              THEN VISION_GOALS
              ELSE ARCHITECTURE_DIAGRAM

C13_Witness ==
    /\ pc = "classified"
    /\ slide.title = <<W_TimeLine, W_Space, W_CONCURRENT>>
    /\ call.ret = CURRENT_STATE

C13_WitnessNorthStar ==
    /\ pc = "classified"
    /\ slide.title = <<W_North, W_Space, W_STAR>>
    /\ call.ret = VISION_GOALS

C13_WitnessEmpty ==
    /\ pc = "classified"
    /\ slide.title = <<>>
    /\ call.ret = ARCHITECTURE_DIAGRAM

\* C29: the two back ends classify alike: for every slide title the label
\* DSDAgent._determine_slide_type returns is the label
\* GoogleSlidesAgent._determine_slide_type returns, and so the same slides
\* pass a given slide_type_filter.
C29_BackEndsClassifyAlike ==
    /\ pc = "classified" => call.ret = google_determine_slide_type(slide)
    /\ pc = "google_classified" => call.ret = determine_slide_type(slide)

====
